---- MODULE Spec2Model ----
(***************************************************************************)
(* bigip_virtual_server: one invocation of the module's main() against a   *)
(* BIG-IP appliance that a concurrent actor may change between any two     *)
(* remote calls.                                                           *)
(*                                                                         *)
(* Encoding of Python values:                                              *)
(*   - a name (destination, pool, profile, virtual server) is a sequence   *)
(*     of strings: <<base>> is the relative name "base", <<folder, base>>  *)
(*     is the qualified name "/folder/base" and <<>> is Python's None;     *)
(*   - a str parameter that is not a name (snat, description) is a string, *)
(*     Unset standing for Python's None;                                   *)
(*   - the int parameter port is an integer, NoPort standing for None;     *)
(*   - the list parameter all_profiles is [given, names]: given = FALSE is *)
(*     None, given = TRUE carries the names of the list.                   *)
(***************************************************************************)
EXTENDS Integers, Sequences, FiniteSets, TLC

\* ---------------------------------------------------------------- bounds
MaxRuns == 2        \* invocations in a row with the same desired state
MaxEnvSteps == 2    \* changes made by the concurrent actor
MaxFaults == 1      \* remote calls that fail for a reason that is no race

\* ------------------------------------------------------- Python's None
None == <<>>
Unset == "<unset>"
NoPort == -1

\* ------------------------------------------------------------- inputs
States == {"present", "absent", "enabled", "disabled"}
Partitions == {"Common", "Other"}
Destinations == {None, <<"10.0.0.1">>}
Ports == {NoPort, 0, 1, 65535, 65536}
Pools == {None, <<"pool1">>}
Descriptions == {Unset, "web"}
Snats == {Unset, "None", "Automap"}
ProfileLists == {[given |-> FALSE, names |-> {}],
                 [given |-> TRUE, names |-> {}],
                 [given |-> TRUE, names |-> {<<"http">>}]}

VsName == <<"vs1">>
TCP == <<"Common", "tcp">>
HTTP == <<"Common", "http">>

\* ------------------------------------------------ ansible.module_utils.f5
\* fq_name: a name that is set and does not start with "/" gets the
\* partition as its folder; None and qualified names are returned as given.
fq_name(partition, name) ==
    IF name # None /\ Len(name) = 1 THEN <<partition>> \o name ELSE name

fq_list_names(partition, list_names) ==
    IF ~list_names.given THEN list_names
    ELSE [given |-> TRUE,
          names |-> {fq_name(partition, x) : x \in list_names.names}]

\* ------------------------------------------------------- the appliance
\* The session never sets an active folder, so the appliance resolves a
\* relative name in /Common: vs_create attaches 'tcp' and set_profiles
\* reads it back as "/Common/tcp".
ActiveFolder == "Common"

Resolve(name) ==
    IF name # None /\ Len(name) = 1 THEN <<ActiveFolder>> \o name ELSE name

Absent == [exists |-> FALSE, address |-> None, port |-> NoPort, pool |-> None,
           description |-> "", snat |-> "SRC_TRANS_NONE", profiles |-> {}]

Call(op, res, arg) == [op |-> op, res |-> res, arg |-> arg]

\* The outcome of the k-th remote call of an operation on virtual server v:
\* "other" when the call is the one that fails for a reason that is no race,
\* "not_found" when the virtual server is missing.
Outcome(v, f, k) ==
    IF f = k THEN "other" ELSE IF v.exists THEN "ok" ELSE "not_found"

Raise(v, calls) == [ok |-> FALSE, value |-> FALSE, vs |-> v, log |-> calls]
Return(value, v, calls) == [ok |-> TRUE, value |-> value, vs |-> v, log |-> calls]

MutatingOps == {"create", "delete_virtual_server", "set_destination_v2",
                "set_default_pool_name", "set_description",
                "set_source_address_translation_none",
                "set_source_address_translation_automap",
                "add_profile", "remove_profile",
                "start_transaction", "submit_transaction"}

\* vs_exists returning False on every failure of the lookup.
vs_exists_Swallowing(v, f) ==
    LET r == Outcome(v, f, 1)
        c == <<Call("get_object_status", r, {})>>
    IN  IF r = "ok" THEN Return(TRUE, v, c) ELSE Return(FALSE, v, c)

\* ------------------------------------------------------------- vs_exists
vs_exists(v, f) ==
    LET r == Outcome(v, f, 1)
        c == <<Call("get_object_status", r, {})>>
    IN  IF r = "ok" THEN Return(TRUE, v, c)
        ELSE IF r = "not_found" THEN Return(FALSE, v, c)
        ELSE Raise(v, c)

\* ------------------------------------------------------------- vs_create
\* The create call fails with "already exists" on an existing virtual
\* server; vs_create catches every exception of the call and returns.
CreateOutcome(v, f) ==
    IF f = 1 THEN "other" ELSE IF v.exists THEN "already_exists" ELSE "ok"

vs_create(v, destination, port, pool, f) ==
    LET r == CreateOutcome(v, f)
        c == <<Call("create", r, {})>>
    IN  IF r = "ok"
        THEN Return(TRUE, [exists |-> TRUE, address |-> Resolve(destination),
                           port |-> port, pool |-> Resolve(pool),
                           description |-> "", snat |-> "SRC_TRANS_NONE",
                           profiles |-> {Resolve(<<"tcp">>)}], c)
        ELSE Return(TRUE, v, c)

\* ------------------------------------------------------------- vs_remove
vs_remove(v, f) ==
    LET r == Outcome(v, f, 1)
        c == <<Call("delete_virtual_server", r, {})>>
    IN  IF r = "ok" THEN Return(TRUE, Absent, c) ELSE Raise(v, c)

\* set_profiles with the add call of lines 214-216 before the remove call
\* of lines 211-213.
set_profiles_AddFirst(v, profiles_list, f) ==
    IF ~profiles_list.given THEN Return(FALSE, v, <<>>)
    ELSE
    LET g == Outcome(v, f, 1)
        get == <<Call("get_profile", g, {})>>
        to_add_profiles == profiles_list.names \ v.profiles
        to_del_profiles == {x \in v.profiles :
                              x \notin profiles_list.names /\ x # TCP}
        add == IF to_add_profiles # {}
               THEN <<Call("add_profile", Outcome(v, f, 2), to_add_profiles)>>
               ELSE <<>>
        del == IF to_del_profiles # {}
               THEN <<Call("remove_profile", Outcome(v, f, 3), to_del_profiles)>>
               ELSE <<>>
        v1 == [v EXCEPT !.profiles = @ \cup to_add_profiles]
        v2 == [v1 EXCEPT !.profiles = @ \ to_del_profiles]
    IN  IF g # "ok" THEN Raise(v, get)
        ELSE IF add # <<>> /\ add[1].res # "ok" THEN Raise(v, get \o add)
        ELSE IF del # <<>> /\ del[1].res # "ok" THEN Raise(v1, get \o add \o del)
        ELSE Return(del # <<>> \/ add # <<>>, v2, get \o add \o del)

\* set_profiles without the `x != "/Common/tcp"` test of line 208.
set_profiles_unprotected(v, profiles_list, f) ==
    IF ~profiles_list.given THEN Return(FALSE, v, <<>>)
    ELSE
    LET g == Outcome(v, f, 1)
        get == <<Call("get_profile", g, {})>>
        to_add_profiles == profiles_list.names \ v.profiles
        to_del_profiles == v.profiles \ profiles_list.names
        del == IF to_del_profiles # {}
               THEN <<Call("remove_profile", Outcome(v, f, 2), to_del_profiles)>>
               ELSE <<>>
        add == IF to_add_profiles # {}
               THEN <<Call("add_profile", Outcome(v, f, 3), to_add_profiles)>>
               ELSE <<>>
        v1 == [v EXCEPT !.profiles = @ \ to_del_profiles]
        v2 == [v1 EXCEPT !.profiles = @ \cup to_add_profiles]
    IN  IF g # "ok" THEN Raise(v, get)
        ELSE IF del # <<>> /\ del[1].res # "ok" THEN Raise(v, get \o del)
        ELSE IF add # <<>> /\ add[1].res # "ok" THEN Raise(v1, get \o del \o add)
        ELSE Return(del # <<>> \/ add # <<>>, v2, get \o del \o add)

\* ---------------------------------------------------------- set_profiles
set_profiles(v, profiles_list, f) ==
    IF ~profiles_list.given THEN Return(FALSE, v, <<>>)
    ELSE
    LET g == Outcome(v, f, 1)
        get == <<Call("get_profile", g, {})>>
        current_profiles == v.profiles
        to_add_profiles == profiles_list.names \ current_profiles
        to_del_profiles == {x \in current_profiles :
                              x \notin profiles_list.names /\ x # TCP}
        del == IF to_del_profiles # {}
               THEN <<Call("remove_profile", Outcome(v, f, 2), to_del_profiles)>>
               ELSE <<>>
        delFailed == del # <<>> /\ del[1].res # "ok"
        add == IF to_add_profiles # {}
               THEN <<Call("add_profile", Outcome(v, f, 3), to_add_profiles)>>
               ELSE <<>>
        addFailed == add # <<>> /\ add[1].res # "ok"
        v1 == [v EXCEPT !.profiles = @ \ to_del_profiles]
        v2 == [v1 EXCEPT !.profiles = @ \cup to_add_profiles]
    IN  IF g # "ok" THEN Raise(v, get)
        ELSE IF delFailed THEN Raise(v, get \o del)
        ELSE IF addFailed THEN Raise(v1, get \o del \o add)
        ELSE Return(del # <<>> \/ add # <<>>, v2, get \o del \o add)

\* -------------------------------------------------------------- set_snat
set_snat(v, snat, f) ==
    LET g == Outcome(v, f, 1)
        get == <<Call("get_source_address_translation_type", g, {})>>
        current_state == v.snat
        toNone == snat = "None" /\ current_state # "SRC_TRANS_NONE"
        toAuto == snat = "Automap" /\ current_state # "SRC_TRANS_AUTOMAP"
        s == Outcome(v, f, 2)
    IN  IF g # "ok" THEN Raise(v, get)
        ELSE IF snat = Unset THEN Return(FALSE, v, get)
        ELSE IF toNone
        THEN LET c == get \o <<Call("set_source_address_translation_none", s, {})>>
             IN  IF s = "ok"
                 THEN Return(TRUE, [v EXCEPT !.snat = "SRC_TRANS_NONE"], c)
                 ELSE Raise(v, c)
        ELSE IF toAuto
        THEN LET c == get \o <<Call("set_source_address_translation_automap", s, {})>>
             IN  IF s = "ok"
                 THEN Return(TRUE, [v EXCEPT !.snat = "SRC_TRANS_AUTOMAP"], c)
                 ELSE Raise(v, c)
        ELSE Return(FALSE, v, get)

\* set_pool without the `pool != current_pool` test of line 243.
set_pool_Always(v, pool, f) ==
    LET g == Outcome(v, f, 1)
        get == <<Call("get_default_pool_name", g, {})>>
        s == Outcome(v, f, 2)
        c == get \o <<Call("set_default_pool_name", s, {})>>
    IN  IF g # "ok" THEN Raise(v, get)
        ELSE IF pool # None
        THEN IF s = "ok" THEN Return(TRUE, [v EXCEPT !.pool = pool], c)
             ELSE Raise(v, c)
        ELSE Return(FALSE, v, get)

\* -------------------------------------------------------------- set_pool
set_pool(v, pool, f) ==
    LET g == Outcome(v, f, 1)
        get == <<Call("get_default_pool_name", g, {})>>
        current_pool == v.pool
        s == Outcome(v, f, 2)
        c == get \o <<Call("set_default_pool_name", s, {})>>
    IN  IF g # "ok" THEN Raise(v, get)
        ELSE IF pool # None /\ pool # current_pool
        THEN IF s = "ok" THEN Return(TRUE, [v EXCEPT !.pool = pool], c)
             ELSE Raise(v, c)
        ELSE Return(FALSE, v, get)

\* set_destination with `or` for the `and` of the two `is not None` tests
\* of line 256.
set_destination_Partial(v, destination, port, f) ==
    LET g == Outcome(v, f, 1)
        get == <<Call("get_destination_v2", g, {})>>
        s == Outcome(v, f, 2)
        c == get \o <<Call("set_destination_v2", s, {})>>
    IN  IF g # "ok" THEN Raise(v, get)
        ELSE IF (destination # None \/ port # NoPort)
                /\ (destination # v.address \/ port # v.port)
        THEN IF s = "ok"
             THEN Return(TRUE, [v EXCEPT !.address = Resolve(destination),
                                         !.port = port], c)
             ELSE Raise(v, c)
        ELSE Return(FALSE, v, get)

\* ------------------------------------------------------- set_destination
set_destination(v, destination, port, f) ==
    LET g == Outcome(v, f, 1)
        get == <<Call("get_destination_v2", g, {})>>
        s == Outcome(v, f, 2)
        c == get \o <<Call("set_destination_v2", s, {})>>
    IN  IF g # "ok" THEN Raise(v, get)
        ELSE IF (destination # None /\ port # NoPort)
                /\ (destination # v.address \/ port # v.port)
        THEN IF s = "ok"
             THEN Return(TRUE, [v EXCEPT !.address = Resolve(destination),
                                         !.port = port], c)
             ELSE Raise(v, c)
        ELSE Return(FALSE, v, get)

\* ------------------------------------------------------- set_description
set_description(v, description, f) ==
    LET g == Outcome(v, f, 1)
        get == <<Call("get_description", g, {})>>
        current_description == v.description
        s == Outcome(v, f, 2)
        c == get \o <<Call("set_description", s, {})>>
    IN  IF g # "ok" THEN Raise(v, get)
        ELSE IF description # Unset /\ current_description # description
        THEN IF s = "ok"
             THEN Return(TRUE, [v EXCEPT !.description = description], c)
             ELSE Raise(v, c)
        ELSE Return(FALSE, v, get)

\* ------------------------------------------------------------- the state
VARIABLES
    vs,        \* the virtual server on the appliance (Absent when missing)
    txn,       \* the session has an open, uncommitted transaction
    params,    \* module.params and module.check_mode of the invocation
    pc,        \* position of main()
    update,    \* main's local `update`
    result,    \* main's local `result`
    outcome,   \* "running", "success" (exit_json) or "failed" (fail_json)
    msg,       \* the msg of fail_json
    log,       \* the remote calls of the invocation, with their outcomes
    runs,      \* invocations started so far
    prev,      \* how the previous invocation ended
    quiet,     \* no concurrent change and no failed call since the first run
    faults,    \* remote calls failed so far for a reason that is no race
    envSteps   \* changes made so far by the concurrent actor

vars == <<vs, txn, params, pc, update, result, outcome, msg, log, runs, prev,
          quiet, faults, envSteps>>

Params == [state : States, check_mode : BOOLEAN, partition : Partitions,
           destination : Destinations, port : Ports,
           all_profiles : ProfileLists, pool : Pools,
           description : Descriptions, snat : Snats]

NoResult == [changed |-> FALSE, deleted |-> None]
NoPrev == [outcome |-> "none", changed |-> FALSE, check_mode |-> FALSE]

Init ==
    /\ vs = Absent
    /\ txn = FALSE
    /\ params = [state |-> "present", check_mode |-> FALSE,
                 partition |-> "Common", destination |-> None, port |-> NoPort,
                 all_profiles |-> [given |-> FALSE, names |-> {}],
                 pool |-> None, description |-> Unset, snat |-> Unset]
    /\ pc = "idle"
    /\ update = FALSE
    /\ result = NoResult
    /\ outcome = "running"
    /\ msg = ""
    /\ log = <<>>
    /\ runs = 0
    /\ prev = NoPrev
    /\ quiet = TRUE
    /\ faults = 0
    /\ envSteps = 0

\* main's locals, lines 295-301
name == fq_name(params.partition, VsName)
destination == params.destination
port == params.port
all_profiles == fq_list_names(params.partition, params.all_profiles)
pool == fq_name(params.partition, params.pool)
description == params.description
snat == params.snat

\* Which call of an operation of at most k calls fails (0: none).
Faults(k) == IF faults < MaxFaults THEN 0..k ELSE {0}

NumOther(calls) == Cardinality({i \in DOMAIN calls : calls[i].res = "other"})

\* module.exit_json(**result)
ExitJson(res) ==
    /\ pc' = "done"
    /\ outcome' = "success"
    /\ result' = res
    /\ UNCHANGED msg

\* module.fail_json(msg=m)
FailJson(m) ==
    /\ pc' = "done"
    /\ outcome' = "failed"
    /\ msg' = m
    /\ UNCHANGED result

Goto(next, res) ==
    /\ pc' = next
    /\ result' = res
    /\ UNCHANGED <<outcome, msg>>

\* The remote calls r.log have been issued on the appliance.
Remote(r) ==
    /\ vs' = r.vs
    /\ log' = log \o r.log
    /\ faults' = faults + NumOther(r.log)
    /\ quiet' = (quiet /\ NumOther(r.log) = 0)

\* Reconciled with the exception printed and dropped, as vs_create does.
Reconciled_Swallowing(r, next, res) ==
    /\ Remote(r)
    /\ IF next = "done" THEN ExitJson(res) ELSE Goto(next, res)

\* A reconciler r ran: an exception reaches main's `except Exception`,
\* otherwise main goes on at `next`, or exits when there is nothing left.
Reconciled(r, next, res) ==
    /\ Remote(r)
    /\ IF ~r.ok THEN FailJson("received exception")
       ELSE IF next = "done" THEN ExitJson(res)
       ELSE Goto(next, res)

\* `=` where lines 360-364 have `|=`.
Or_Assigning(res, r) == [res EXCEPT !.changed = r.value]

Or(res, r) == [res EXCEPT !.changed = @ \/ r.value]

\* ------------------------------------------------------------ invocation
Invoke ==
    /\ pc = "idle"
    /\ \E p \in Params : params' = p
    /\ pc' = "validate"
    /\ runs' = 1
    /\ quiet' = TRUE
    /\ UNCHANGED <<vs, txn, update, result, outcome, msg, log, prev, faults,
                   envSteps>>

\* lines 303-304
PortRejected(p) == 1 > p /\ p > 65535

ValidatePort ==
    /\ pc = "validate"
    /\ IF PortRejected(port)
       THEN FailJson("valid ports must be in range 1 - 65535")
       ELSE Goto("state", result)
    /\ UNCHANGED <<vs, txn, params, update, log, runs, prev, quiet, faults,
                   envSteps>>

\* StateAbsent without the `if not module.check_mode` test of line 311.
StateAbsent_IgnoringCheckMode ==
    /\ pc = "state"
    /\ params.state = "absent"
    /\ Goto("absent_exists", NoResult)
    /\ UNCHANGED <<vs, txn, params, update, log, runs, prev, quiet, faults,
                   envSteps>>

\* lines 310-311, 323-325
StateAbsent ==
    /\ pc = "state"
    /\ params.state = "absent"
    /\ IF ~params.check_mode
       THEN Goto("absent_exists", NoResult)
       ELSE ExitJson([NoResult EXCEPT !.changed = TRUE])
    /\ UNCHANGED <<vs, txn, params, update, log, runs, prev, quiet, faults,
                   envSteps>>

\* line 312
AbsentExists ==
    /\ pc = "absent_exists"
    /\ \E f \in Faults(1) :
         LET e == vs_exists(vs, f)
         IN  /\ Remote(e)
             /\ IF ~e.ok THEN FailJson("received exception")
                ELSE IF e.value THEN Goto("absent_remove", result)
                ELSE ExitJson(result)
    /\ UNCHANGED <<txn, params, update, runs, prev, envSteps>>

\* AbsentRemove without the `"was not found" in str(e)` test of line 319.
AbsentRemove_Reraising ==
    /\ pc = "absent_remove"
    /\ \E f \in Faults(1) :
         LET d == vs_remove(vs, f)
         IN  /\ Remote(d)
             /\ IF d.ok
                THEN ExitJson([changed |-> TRUE, deleted |-> name])
                ELSE FailJson("received exception")
    /\ UNCHANGED <<txn, params, update, runs, prev, envSteps>>

\* lines 315-322
AbsentRemove ==
    /\ pc = "absent_remove"
    /\ \E f \in Faults(1) :
         LET d == vs_remove(vs, f)
         IN  /\ Remote(d)
             /\ IF d.ok
                THEN ExitJson([changed |-> TRUE, deleted |-> name])
                ELSE IF d.log[1].res = "not_found"
                THEN ExitJson([result EXCEPT !.changed = FALSE])
                ELSE FailJson("received exception")
    /\ UNCHANGED <<txn, params, update, runs, prev, envSteps>>

\* lines 327-328
StatePresent ==
    /\ pc = "state"
    /\ params.state = "present"
    /\ update' = FALSE
    /\ Goto("present_exists", NoResult)
    /\ UNCHANGED <<vs, txn, params, log, runs, prev, quiet, faults, envSteps>>

\* PresentExists without the start_transaction call of line 359.
PresentExists_NoTransaction ==
    /\ pc = "present_exists"
    /\ \E f \in Faults(1) :
         LET e == vs_exists(vs, f)
         IN  /\ Remote(e)
             /\ IF ~e.ok
                THEN FailJson("received exception") /\ UNCHANGED update
                ELSE IF ~e.value
                THEN IF destination = None \/ port = NoPort \/ port = 0
                     THEN /\ FailJson("both destination and port must be supplied to create a VS")
                          /\ UNCHANGED update
                     ELSE IF ~params.check_mode
                     THEN Goto("create", result) /\ UNCHANGED update
                     ELSE /\ ExitJson([NoResult EXCEPT !.changed = TRUE])
                          /\ UNCHANGED update
                ELSE /\ update' = TRUE
                     /\ IF ~params.check_mode
                        THEN Goto("upd_destination", result)
                        ELSE ExitJson([NoResult EXCEPT !.changed = TRUE])
    /\ UNCHANGED <<txn, params, runs, prev, envSteps>>

\* lines 329-332, 350-357, 366-368
PresentExists ==
    /\ pc = "present_exists"
    /\ \E f \in Faults(1) :
         LET e == vs_exists(vs, f)
         IN  /\ Remote(e)
             /\ IF ~e.ok
                THEN FailJson("received exception") /\ UNCHANGED update
                ELSE IF ~e.value
                THEN IF destination = None \/ port = NoPort \/ port = 0
                     THEN /\ FailJson("both destination and port must be supplied to create a VS")
                          /\ UNCHANGED update
                     ELSE IF ~params.check_mode
                     THEN Goto("create", result) /\ UNCHANGED update
                     ELSE /\ ExitJson([NoResult EXCEPT !.changed = TRUE])
                          /\ UNCHANGED update
                ELSE /\ update' = TRUE
                     /\ IF ~params.check_mode
                        THEN Goto("start_transaction", result)
                        ELSE ExitJson([NoResult EXCEPT !.changed = TRUE])
    /\ UNCHANGED <<txn, params, runs, prev, envSteps>>

\* Create without the `result = {'changed': True}` of line 340.
Create_KeepingResult ==
    /\ pc = "create"
    /\ \E f \in Faults(1) :
         LET c == vs_create(vs, destination, port, pool, f)
         IN  /\ Remote(c)
             /\ Goto("post_profiles", result)
             /\ UNCHANGED update
    /\ UNCHANGED <<txn, params, runs, prev, envSteps>>

\* lines 338-346: vs_create returns normally whatever the create call did,
\* so the `except bigsuds.OperationFailed` clause of main is never entered.
Create ==
    /\ pc = "create"
    /\ \E f \in Faults(1) :
         LET c == vs_create(vs, destination, port, pool, f)
         IN  /\ Remote(c)
             /\ IF c.ok
                THEN Goto("post_profiles", [NoResult EXCEPT !.changed = TRUE])
                     /\ UNCHANGED update
                ELSE IF c.log[1].res = "already_exists"
                THEN Goto("start_transaction", result) /\ update' = TRUE
                ELSE FailJson("received exception") /\ UNCHANGED update
    /\ UNCHANGED <<txn, params, runs, prev, envSteps>>

\* line 347
PostProfiles ==
    /\ pc = "post_profiles"
    /\ \E f \in Faults(3) :
         Reconciled(set_profiles(vs, all_profiles, f), "post_snat", result)
    /\ UNCHANGED <<txn, params, update, runs, prev, envSteps>>

\* line 348
PostSnat ==
    /\ pc = "post_snat"
    /\ \E f \in Faults(2) :
         Reconciled(set_snat(vs, snat, f), "post_description", result)
    /\ UNCHANGED <<txn, params, update, runs, prev, envSteps>>

\* lines 349, 355, 383
PostDescription ==
    /\ pc = "post_description"
    /\ \E f \in Faults(2) :
         Reconciled(set_description(vs, description, f), "done", result)
    /\ UNCHANGED <<txn, params, update, runs, prev, envSteps>>

\* line 359
StartTransaction ==
    /\ pc = "start_transaction"
    /\ \E f \in Faults(1) :
         LET r == IF f = 1 THEN "other" ELSE "ok"
         IN  /\ log' = Append(log, Call("start_transaction", r, {}))
             /\ faults' = faults + f
             /\ quiet' = (quiet /\ f = 0)
             /\ txn' = (r = "ok")
             /\ IF r = "ok" THEN Goto("upd_destination", result)
                ELSE FailJson("received exception")
    /\ UNCHANGED <<vs, params, update, runs, prev, envSteps>>

\* line 360
UpdDestination ==
    /\ pc = "upd_destination"
    /\ \E f \in Faults(2) :
         LET r == set_destination(vs, fq_name(params.partition, destination),
                                  port, f)
         IN  Reconciled(r, "upd_pool", Or(result, r))
    /\ UNCHANGED <<txn, params, update, runs, prev, envSteps>>

\* line 361
UpdPool ==
    /\ pc = "upd_pool"
    /\ \E f \in Faults(2) :
         LET r == set_pool(vs, pool, f)
         IN  Reconciled(r, "upd_description", Or(result, r))
    /\ UNCHANGED <<txn, params, update, runs, prev, envSteps>>

\* UpdDescription under a short-circuit `or`: set_description is not called
\* once an earlier reconciler has reported a change.
UpdDescription_ShortCircuit ==
    /\ pc = "upd_description"
    /\ IF result.changed
       THEN /\ Goto("upd_snat", result)
            /\ UNCHANGED <<vs, log, faults, quiet>>
       ELSE \E f \in Faults(2) :
              LET r == set_description(vs, description, f)
              IN  Reconciled(r, "upd_snat", Or(result, r))
    /\ UNCHANGED <<txn, params, update, runs, prev, envSteps>>

\* line 362
UpdDescription ==
    /\ pc = "upd_description"
    /\ \E f \in Faults(2) :
         LET r == set_description(vs, description, f)
         IN  Reconciled(r, "upd_snat", Or(result, r))
    /\ UNCHANGED <<txn, params, update, runs, prev, envSteps>>

\* line 363
UpdSnat ==
    /\ pc = "upd_snat"
    /\ \E f \in Faults(2) :
         LET r == set_snat(vs, snat, f)
         IN  Reconciled(r, "upd_profiles", Or(result, r))
    /\ UNCHANGED <<txn, params, update, runs, prev, envSteps>>

\* line 364
UpdProfiles ==
    /\ pc = "upd_profiles"
    /\ \E f \in Faults(3) :
         LET r == set_profiles(vs, all_profiles, f)
         IN  Reconciled(r, "submit_transaction", Or(result, r))
    /\ UNCHANGED <<txn, params, update, runs, prev, envSteps>>

\* lines 365, 383
SubmitTransaction ==
    /\ pc = "submit_transaction"
    /\ \E f \in Faults(1) :
         LET r == IF f = 1 THEN "other" ELSE "ok"
         IN  /\ log' = Append(log, Call("submit_transaction", r, {}))
             /\ faults' = faults + f
             /\ quiet' = (quiet /\ f = 0)
             /\ txn' = (txn /\ r # "ok")
             /\ IF r = "ok" THEN ExitJson(result)
                ELSE FailJson("received exception")
    /\ UNCHANGED <<vs, params, update, runs, prev, envSteps>>

\* lines 370-378
StateEnabledDisabled ==
    /\ pc = "state"
    /\ params.state \in {"disabled", "enabled"}
    /\ IF name = None
       THEN FailJson("name parameter required when state=enabled/disabled")
       ELSE IF ~params.check_mode THEN ExitJson(NoResult)
       ELSE ExitJson([NoResult EXCEPT !.changed = TRUE])
    /\ UNCHANGED <<vs, txn, params, update, log, runs, prev, quiet, faults,
                   envSteps>>

\* The same task is run again (a new process, a new session), live or as a
\* dry run.
Rerun ==
    /\ pc = "done"
    /\ runs < MaxRuns
    /\ \E cm \in BOOLEAN : params' = [params EXCEPT !.check_mode = cm]
    /\ prev' = [outcome |-> outcome, changed |-> result.changed,
                check_mode |-> params.check_mode]
    /\ runs' = runs + 1
    /\ pc' = "validate"
    /\ txn' = FALSE
    /\ update' = FALSE
    /\ result' = NoResult
    /\ outcome' = "running"
    /\ msg' = ""
    /\ log' = <<>>
    /\ UNCHANGED <<vs, quiet, faults, envSteps>>

\* ---------------------------------------------------- the concurrent actor
EnvCreate ==
    /\ ~vs.exists
    /\ pc # "done"
    /\ envSteps < MaxEnvSteps
    /\ \E profs \in {{TCP}, {TCP, HTTP}} :
         vs' = [exists |-> TRUE, address |-> <<"Common", "10.0.0.2">>,
                port |-> 1, pool |-> None, description |-> "",
                snat |-> "SRC_TRANS_NONE", profiles |-> profs]
    /\ envSteps' = envSteps + 1
    /\ quiet' = FALSE
    /\ UNCHANGED <<txn, params, pc, update, result, outcome, msg, log, runs,
                   prev, faults>>

EnvDelete ==
    /\ vs.exists
    /\ pc # "done"
    /\ envSteps < MaxEnvSteps
    /\ vs' = Absent
    /\ envSteps' = envSteps + 1
    /\ quiet' = FALSE
    /\ UNCHANGED <<txn, params, pc, update, result, outcome, msg, log, runs,
                   prev, faults>>

Next ==
    \/ Invoke
    \/ ValidatePort
    \/ StateAbsent
    \/ AbsentExists
    \/ AbsentRemove
    \/ StatePresent
    \/ PresentExists
    \/ Create
    \/ PostProfiles
    \/ PostSnat
    \/ PostDescription
    \/ StartTransaction
    \/ UpdDestination
    \/ UpdPool
    \/ UpdDescription
    \/ UpdSnat
    \/ UpdProfiles
    \/ SubmitTransaction
    \/ StateEnabledDisabled
    \/ Rerun
    \/ EnvCreate
    \/ EnvDelete

Spec == Init /\ [][Next]_vars

TypeOK ==
    /\ params \in Params
    /\ outcome \in {"running", "success", "failed"}
    /\ runs \in 0..MaxRuns
    /\ faults \in 0..MaxFaults
    /\ envSteps \in 0..MaxEnvSteps

\* ------------------------------------------------------------ the claims
Issued(op) == \E i \in DOMAIN log : log[i].op = op
IssuedWith(op, res) == \E i \in DOMAIN log : log[i].op = op /\ log[i].res = res
Ended == pc = "done"
Succeeded == pc = "done" /\ outcome = "success"

\* C1: a dry run (check_mode) issues no mutating remote call, whatever the
\* desired state, the input and the state of the appliance.
C1_DryRunIssuesNoMutatingCall ==
    params.check_mode => \A i \in DOMAIN log : log[i].op \notin MutatingOps

\* C1 witness: a dry run of state=present found the virtual server, reported
\* a change and ended, where a live run opens a transaction.
C1_Witness ==
    /\ Succeeded /\ params.check_mode /\ params.state = "present"
    /\ IssuedWith("get_object_status", "ok")
    /\ update /\ result.changed

\* C2 (as claimed): a dry run reports the `changed` that a live run of the
\* same task reports against the same appliance state.  The live run here
\* follows the dry run with nothing changing the appliance in between.
C2_DryRunReportsLiveChanged ==
    (/\ Succeeded /\ ~params.check_mode /\ quiet
     /\ prev.outcome = "success" /\ prev.check_mode)
        => result.changed = prev.changed

\* C3 (as claimed): the second of two live runs of the same task in a row,
\* nothing else changing the appliance, reports changed=false.
C3_SecondLiveRunUnchanged ==
    (/\ Succeeded /\ ~params.check_mode /\ quiet
     /\ prev.outcome = "success" /\ ~prev.check_mode)
        => ~result.changed

\* C4 (as claimed): when the create call fails with "already exists", main
\* takes the update path: `update` is set and a transaction is opened next.
C4_CreateRaceTakesUpdatePath ==
    IssuedWith("create", "already_exists")
        => /\ update
           /\ pc = "start_transaction" \/ Issued("start_transaction")

\* C5: a live state=absent run whose delete call fails with "was not found"
\* ends in success with changed=false; a delete call that fails for another
\* reason ends the run in a failure report.
C5_DeleteRace ==
    /\ IssuedWith("delete_virtual_server", "not_found")
         => Succeeded /\ ~result.changed
    /\ IssuedWith("delete_virtual_server", "other")
         => Ended /\ outcome = "failed"

\* C5 witness: the existence check found the virtual server, the concurrent
\* actor removed it, and the delete call failed with "was not found".
C5_Witness ==
    /\ params.state = "absent" /\ ~params.check_mode
    /\ IssuedWith("get_object_status", "ok")
    /\ IssuedWith("delete_virtual_server", "not_found")
    /\ Ended

\* C6 (as claimed): a remote call that fails for a reason that is no race
\* is the last call of the invocation, which ends in a failure report.
C6_OtherFailureIsFatal ==
    \A i \in DOMAIN log :
        log[i].res = "other" => i = Len(log) /\ Ended /\ outcome = "failed"

\* C7 (as claimed): with state=absent, in every mode, changed is true iff a
\* delete call was issued and succeeded; a dry run issues no delete call.
C7_AbsentChangedIffDeleted ==
    (Succeeded /\ params.state = "absent")
        => /\ result.changed <=> IssuedWith("delete_virtual_server", "ok")
           /\ params.check_mode => ~Issued("delete_virtual_server")

\* C8 (as claimed): port validation accepts a supplied port p iff
\* 1 <= p <= 65535.
PortValidated == pc \notin {"idle", "validate"}
PortAccepted == msg # "valid ports must be in range 1 - 65535"

C8_PortAcceptedIffInRange ==
    (PortValidated /\ port # NoPort)
        => (PortAccepted <=> (1 <= port /\ port <= 65535))

\* C9 (as claimed): a validation error (an out-of-range port, or destination
\* or port missing for a state=present run that finds no virtual server)
\* ends the invocation in a failure report before any remote call.
PortOutOfRange == port # NoPort /\ (port < 1 \/ port > 65535)
MissingToCreate ==
    msg = "both destination and port must be supplied to create a VS"

C9_ValidationErrorBeforeRemoteCall ==
    /\ (Ended /\ PortOutOfRange) => outcome = "failed" /\ log = <<>>
    /\ MissingToCreate => outcome = "failed" /\ log = <<>>

\* C10: profile reconciliation never passes the base TCP profile to the
\* remove call, so an existing virtual server always has it attached.
C10_BaseProfileProtected ==
    /\ \A i \in DOMAIN log : log[i].op = "remove_profile" => TCP \notin log[i].arg
    /\ vs.exists => TCP \in vs.profiles

\* C10 witness: current = {tcp, http} and an empty desired list: the remove
\* call carries {http}, there is no add call, and tcp stays attached.
C10_Witness ==
    /\ params.all_profiles = [given |-> TRUE, names |-> {}]
    /\ \E i \in DOMAIN log :
         /\ log[i] = Call("remove_profile", "ok", {HTTP})
    /\ ~Issued("add_profile")
    /\ vs.exists /\ vs.profiles = {TCP}

\* ---------------------------------------------------- claims C11 to C20
Count(op) == Cardinality({i \in DOMAIN log : log[i].op = op})
Getters == {"get_destination_v2", "get_default_pool_name", "get_description",
            "get_source_address_translation_type", "get_profile"}
Setters == MutatingOps \ {"create", "delete_virtual_server",
                          "start_transaction", "submit_transaction"}
LiveUpdate == update /\ ~params.check_mode

\* C11 (as claimed, from the documented example "Modify Port of the Virtual
\* Server"): a live state=present run with a port and no destination on an
\* existing virtual server, nothing else changing the appliance, leaves the
\* virtual server with the supplied port.
C11_PortOnlySetsPort ==
    (/\ Succeeded /\ LiveUpdate /\ quiet
     /\ params.state = "present" /\ destination = None /\ port # NoPort)
        => vs.port = port

\* The position of a remote call in the update path of lines 359-365.
Rank(op) ==
    CASE op = "get_object_status" -> 0
      [] op = "start_transaction" -> 1
      [] op \in {"get_destination_v2", "set_destination_v2"} -> 2
      [] op \in {"get_default_pool_name", "set_default_pool_name"} -> 3
      [] op \in {"get_description", "set_description"} -> 4
      [] op \in {"get_source_address_translation_type",
                 "set_source_address_translation_none",
                 "set_source_address_translation_automap"} -> 5
      [] op = "get_profile" -> 6
      [] op = "remove_profile" -> 7
      [] op = "add_profile" -> 8
      [] op = "submit_transaction" -> 9
      [] OTHER -> 10

\* C12: on the live update path start_transaction is called once, then the
\* destination+port, pool, description, SNAT and profile reconcilers run in
\* that order, then submit_transaction once; every setter lies between the
\* two, and the reported changed is the OR of the reconcilers' results
\* (true iff some setter, add or remove call was made).
C12_UpdatePathSequence ==
    LiveUpdate =>
        /\ Count("start_transaction") <= 1 /\ Count("submit_transaction") <= 1
        /\ \A i, j \in DOMAIN log : i < j => Rank(log[i].op) <= Rank(log[j].op)
        /\ \A i \in DOMAIN log :
             log[i].op \in Setters => IssuedWith("start_transaction", "ok")
        /\ Succeeded =>
             /\ IssuedWith("start_transaction", "ok")
             /\ IssuedWith("submit_transaction", "ok")
             /\ \A g \in Getters \ {"get_profile"} : IssuedWith(g, "ok")
             /\ all_profiles.given <=> IssuedWith("get_profile", "ok")
             /\ result.changed <=>
                  \E i \in DOMAIN log : log[i].op \in Setters /\ log[i].res = "ok"

\* C12 witness: an update that changed the pool and nothing after it.
C12_Witness ==
    /\ Succeeded /\ LiveUpdate
    /\ IssuedWith("set_default_pool_name", "ok")
    /\ ~Issued("set_description") /\ ~Issued("remove_profile")
    /\ ~Issued("add_profile")
    /\ ~Issued("set_source_address_translation_automap")
    /\ ~Issued("set_source_address_translation_none")
    /\ result.changed

\* C13 (as claimed): no getter call occurs between start_transaction and
\* submit_transaction.
C13_NoGetterInsideTransaction ==
    \A i, j \in DOMAIN log :
        (i < j /\ log[i].op = "start_transaction") => log[j].op \notin Getters

\* C13 (amended): on the live update path every getter call of a reconciler
\* is issued after start_transaction and before submit_transaction.
C13_GettersInsideTransaction ==
    update =>
        \A j \in DOMAIN log :
            log[j].op \in Getters =>
                /\ \E i \in 1..(j - 1) : log[i] = Call("start_transaction", "ok", {})
                /\ \A i \in 1..(j - 1) : log[i].op # "submit_transaction"

\* C13 witness: a committed update whose five getters were all called.
C13_Witness ==
    /\ Succeeded /\ LiveUpdate
    /\ \A g \in Getters : IssuedWith(g, "ok")
    /\ IssuedWith("submit_transaction", "ok")

\* C14: on the live create path create is called once, right after the
\* existence check, with the given destination, port and pool; the profile,
\* SNAT and description reconcilers follow in that order, no transaction is
\* opened or submitted, and the result is changed=true.
CreateRank(op) ==
    CASE op = "get_object_status" -> 0
      [] op = "create" -> 1
      [] op = "get_profile" -> 2
      [] op = "remove_profile" -> 3
      [] op = "add_profile" -> 4
      [] op \in {"get_source_address_translation_type",
                 "set_source_address_translation_none",
                 "set_source_address_translation_automap"} -> 5
      [] op \in {"get_description", "set_description"} -> 6
      [] OTHER -> 7

C14_CreatePath ==
    Issued("create") =>
        /\ Count("create") = 1
        /\ log[1] = Call("get_object_status", "not_found", {})
        /\ log[2].op = "create"
        /\ destination # None /\ port # NoPort
        /\ ~Issued("start_transaction") /\ ~Issued("submit_transaction")
        /\ \A i \in DOMAIN log : CreateRank(log[i].op) < 7
        /\ \A i, j \in DOMAIN log :
             i < j => CreateRank(log[i].op) <= CreateRank(log[j].op)
        /\ (pc = "post_profiles" /\ quiet) =>
             /\ vs.exists /\ vs.address = Resolve(destination)
             /\ vs.port = port /\ vs.pool = pool
        /\ Succeeded =>
             /\ result.changed
             /\ all_profiles.given <=> IssuedWith("get_profile", "ok")
             /\ IssuedWith("get_source_address_translation_type", "ok")
             /\ IssuedWith("get_description", "ok")

\* C14 witness: a create followed by the three reconcilers, each with
\* something to set.
C14_Witness ==
    /\ Succeeded /\ IssuedWith("create", "ok")
    /\ IssuedWith("add_profile", "ok")
    /\ IssuedWith("set_source_address_translation_automap", "ok")
    /\ IssuedWith("set_description", "ok")

\* The remote calls issued by the step being taken.
NewCalls == SubSeq(log', Len(log) + 1, Len(log'))
\* The step of main at one of the positions pcs, on an existing virtual
\* server and with no call failing for a reason that is no race.
StepAt(pcs) == pc \in pcs /\ pc' # pc /\ vs.exists /\ faults' = faults
Opt(cond, call) == IF cond THEN <<call>> ELSE <<>>

\* C15: with a desired list, set_profiles issues get_profile, then at most
\* one remove_profile carrying current minus desired minus the base TCP
\* profile, then at most one add_profile carrying desired minus current,
\* each only when its set is not empty, and returns true iff one of the
\* two sets is not empty.
C15_ProfileReconciliation ==
    [][ (StepAt({"upd_profiles", "post_profiles"}) /\ all_profiles.given) =>
          LET to_add == all_profiles.names \ vs.profiles
              to_remove == (vs.profiles \ all_profiles.names) \ {TCP}
          IN  /\ NewCalls = <<Call("get_profile", "ok", {})>>
                   \o Opt(to_remove # {}, Call("remove_profile", "ok", to_remove))
                   \o Opt(to_add # {}, Call("add_profile", "ok", to_add))
              /\ vs'.profiles = (vs.profiles \ to_remove) \cup to_add
              /\ pc = "upd_profiles" =>
                   result'.changed =
                     (result.changed \/ to_add # {} \/ to_remove # {}) ]_vars

\* C15 witness: current = {tcp, /Common/http} and desired = {/Other/http}:
\* remove_profile {/Common/http} is followed by add_profile {/Other/http}.
C15_Witness ==
    \E i \in DOMAIN log :
        /\ i < Len(log)
        /\ log[i] = Call("remove_profile", "ok", {HTTP})
        /\ log[i + 1] = Call("add_profile", "ok", {<<"Other", "http">>})
        /\ vs.exists /\ vs.profiles = {TCP, <<"Other", "http">>}

OneOfDestinationAndPort == (destination = None) # (port = NoPort)

C18_ConvergesInOnePass ==
    (Succeeded /\ LiveUpdate /\ quiet) =>
        /\ (destination # None /\ port # NoPort) =>
             /\ vs.address = fq_name(params.partition, destination)
             /\ vs.port = port
        /\ pool # None => vs.pool = pool
        /\ description # Unset => vs.description = description
        /\ snat = "None" => vs.snat = "SRC_TRANS_NONE"
        /\ snat = "Automap" => vs.snat = "SRC_TRANS_AUTOMAP"
        /\ all_profiles.given => vs.profiles = all_profiles.names \cup {TCP}

\* C18 witness: every attribute differed and all were set in the one run.
C18_Witness ==
    /\ Succeeded /\ LiveUpdate /\ quiet
    /\ IssuedWith("set_destination_v2", "ok")
    /\ IssuedWith("set_default_pool_name", "ok")
    /\ IssuedWith("set_description", "ok")
    /\ IssuedWith("set_source_address_translation_automap", "ok")
    /\ IssuedWith("remove_profile", "ok")
    /\ IssuedWith("add_profile", "ok")

\* C19: vs_exists issues the one read-only status lookup and leaves the
\* appliance as it is; main takes the exists branch when the lookup
\* succeeds, the missing branch when it fails with "was not found", and
\* ends in a failure report on any other failure of the lookup.
C19_ExistenceGuard ==
    [][ (pc \in {"absent_exists", "present_exists"} /\ pc' # pc) =>
          /\ vs' = vs
          /\ Len(NewCalls) = 1 /\ NewCalls[1].op = "get_object_status"
          /\ NewCalls[1].res =
               (IF faults' # faults THEN "other"
                ELSE IF vs.exists THEN "ok" ELSE "not_found")
          /\ NewCalls[1].res = "other" =>
               pc' = "done" /\ outcome' = "failed" /\ msg' = "received exception"
          /\ (NewCalls[1].res = "ok" /\ pc = "absent_exists") =>
               pc' = "absent_remove"
          /\ (NewCalls[1].res = "not_found" /\ pc = "absent_exists") =>
               pc' = "done" /\ outcome' = "success" /\ ~result'.changed
          /\ (NewCalls[1].res = "ok" /\ pc = "present_exists") =>
               update' /\ pc' \in {"start_transaction", "done"}
          /\ (NewCalls[1].res = "not_found" /\ pc = "present_exists") =>
               ~update' /\ pc' \in {"create", "done"} ]_vars

\* C19 witness: the lookup failed for a reason other than "was not found"
\* and the invocation ended in a failure report.
C19_Witness ==
    /\ log = <<Call("get_object_status", "other", {})>>
    /\ Ended /\ outcome = "failed" /\ vs.exists

\* C20: an invocation opens at most one transaction; submit_transaction is
\* issued iff every call after start_transaction succeeded; when a call
\* fails after start_transaction the invocation ends in a failure report
\* with the transaction still open; success is never reported with an open
\* transaction.
FailedInTransaction ==
    \E i, j \in DOMAIN log :
        /\ i < j /\ log[i] = Call("start_transaction", "ok", {})
        /\ log[j].op # "submit_transaction" /\ log[j].res # "ok"

C20_TransactionOutcome ==
    /\ Count("start_transaction") <= 1
    /\ Issued("submit_transaction") =>
         IssuedWith("start_transaction", "ok") /\ ~FailedInTransaction
    /\ (Ended /\ IssuedWith("start_transaction", "ok") /\ ~FailedInTransaction)
         => Issued("submit_transaction")
    /\ FailedInTransaction =>
         Ended /\ outcome = "failed" /\ txn /\ ~Issued("submit_transaction")
    /\ Succeeded => ~txn
    /\ txn <=> (IssuedWith("start_transaction", "ok")
                /\ ~IssuedWith("submit_transaction", "ok"))

\* C20 witness: a setter failed inside the transaction after an earlier
\* setter had succeeded, and the run ended in failure, uncommitted.
C20_Witness ==
    /\ Ended /\ outcome = "failed" /\ txn
    /\ IssuedWith("set_destination_v2", "ok")
    /\ IssuedWith("set_default_pool_name", "other")
    /\ ~Issued("submit_transaction")

====
